---- MODULE Spec2Model ----
(***************************************************************************)
(* A model of the kachy-valkey Node.js client: KachyConfig (src/config.ts), *)
(* KachyClient (client.ts) and KachyPipeline (pipeline.ts).                 *)
(*                                                                          *)
(* JavaScript strings are TLA+ strings; `undefined` is the string           *)
(* Undefined.  Command arguments are kept as strings (a number of seconds   *)
(* is written as its numeral) so that argument lists stay comparable.       *)
(***************************************************************************)
EXTENDS Integers, Sequences, FiniteSets, TLC

\* The longest queue a caller builds.
MaxQueue == 2

\* The most options and environment variables set for one construction.
MaxOverrides == 2

Undefined == "undefined"

\* The logical flows that may call execute() on the one Pipeline instance.
Flows == {"A", "B"}

Keys == {"k:1"}
Values == {"v"}
Seconds == {"60"}
RawNames == {"hmget"}
AccessKeys == {"key-1", "key-2"}

(***************************************************************************)
(* String conversions, tabulated over the strings the model uses.          *)
(***************************************************************************)
toUpperCase(s) ==
  CASE s = "hmget" -> "HMGET"
    [] s = "ping" -> "PING"
    [] OTHER -> s

encodeURIComponent(s) ==
  CASE s = "k:1" -> "k%3A1"
    [] s = "a b" -> "a%20b"
    [] OTHER -> s

(***************************************************************************)
(* KachyPipeline: the commands each mutator queues.                        *)
(***************************************************************************)
PipelineSet(key, value, ex) ==
  [command |-> "SET",
   args |-> IF ex # Undefined THEN <<key, value, ex>> ELSE <<key, value>>]

PipelineGet(key) == [command |-> "GET", args |-> <<key>>]

PipelineDelete(key) == [command |-> "DEL", args |-> <<key>>]

PipelineExists(key) == [command |-> "EXISTS", args |-> <<key>>]

PipelineExpire(key, seconds) == [command |-> "EXPIRE", args |-> <<key, seconds>>]

PipelineTtl(key) == [command |-> "TTL", args |-> <<key>>]

PipelineRedis(command, args) == [command |-> toUpperCase(command), args |-> args]

(***************************************************************************)
(* JavaScript numbers and the strings that are parsed into them.           *)
(* A number is NaN or a count of thousandths; a string that is parsed is   *)
(* the sequence of its characters.  Exponents and Infinity are not among   *)
(* the strings drawn.                                                      *)
(***************************************************************************)
NaN == [nan |-> TRUE, milli |-> 0]

Num(n) == [nan |-> FALSE, milli |-> n * 1000]

\* A number as a condition: 0 and NaN are falsy.
TruthyNumber(x) == ~x.nan /\ x.milli # 0

Digits == {"0", "1", "2", "3", "4", "5", "6", "7", "8", "9"}

DigitValue(c) ==
  CASE c = "0" -> 0 [] c = "1" -> 1 [] c = "2" -> 2 [] c = "3" -> 3 [] c = "4" -> 4
    [] c = "5" -> 5 [] c = "6" -> 6 [] c = "7" -> 7 [] c = "8" -> 8 [] c = "9" -> 9

RECURSIVE TrimStart(_)
TrimStart(s) == IF s # <<>> /\ Head(s) = " " THEN TrimStart(Tail(s)) ELSE s

RECURSIVE DigitPrefix(_)
DigitPrefix(s) ==
  IF s # <<>> /\ Head(s) \in Digits THEN <<Head(s)>> \o DigitPrefix(Tail(s)) ELSE <<>>

RECURSIVE DigitsValue(_)
DigitsValue(ds) ==
  IF ds = <<>> THEN 0
  ELSE DigitsValue(SubSeq(ds, 1, Len(ds) - 1)) * 10 + DigitValue(ds[Len(ds)])

Signed(s) ==
  IF s # <<>> /\ Head(s) \in {"+", "-"}
    THEN [sign |-> IF Head(s) = "-" THEN -1 ELSE 1, rest |-> Tail(s)]
    ELSE [sign |-> 1, rest |-> s]

\* parseInt(str, 10): leading blanks, a sign, then the longest run of digits.
parseInt(str) ==
  LET t == Signed(TrimStart(str))
      ds == DigitPrefix(t.rest)
  IN IF ds = <<>> THEN NaN ELSE Num(t.sign * DigitsValue(ds))

\* parseFloat(str): as parseInt, with a fraction after a point.
parseFloat(str) ==
  LET t == Signed(TrimStart(str))
      ip == DigitPrefix(t.rest)
      after == SubSeq(t.rest, Len(ip) + 1, Len(t.rest))
      fp == IF after # <<>> /\ Head(after) = "." THEN DigitPrefix(Tail(after)) ELSE <<>>
      thousandths == DigitsValue(SubSeq(fp \o <<"0", "0", "0">>, 1, 3))
  IN IF ip = <<>> /\ fp = <<>> THEN NaN
     ELSE [nan |-> FALSE, milli |-> t.sign * (DigitsValue(ip) * 1000 + thousandths)]

(***************************************************************************)
(* KachyConfig.                                                            *)
(* An option is [has, v]: whether the caller gave it, and its value.  An   *)
(* environment variable is [set, s]: whether it is set, and its text.      *)
(***************************************************************************)
Absent(v) == [has |-> FALSE, v |-> v]

Given(v) == [has |-> TRUE, v |-> v]

Unset(s) == [set |-> FALSE, s |-> s]

EnvSet(s) == [set |-> TRUE, s |-> s]

NumberOptions == {"timeout", "maxRetries", "retryDelay", "poolSize"}

NumberEnvVars == {"KACHY_TIMEOUT", "KACHY_MAX_RETRIES", "KACHY_RETRY_DELAY", "KACHY_POOL_SIZE"}

NoHeaders == [h \in {} |-> ""]

NoOptions ==
  [o \in NumberOptions \cup {"baseUrl", "userAgent", "headers"} |->
     CASE o \in NumberOptions -> Absent(NaN)
       [] o = "headers" -> Absent(NoHeaders)
       [] OTHER -> Absent("")]

NoEnv ==
  [e \in NumberEnvVars \cup {"KACHY_BASE_URL", "KACHY_ACCESS_KEY"} |->
     IF e \in NumberEnvVars THEN Unset(<<>>) ELSE Unset("")]

\* options.x || ... for a number option: the option when given and truthy.
NumberOr(opt, fallback) == IF opt.has /\ TruthyNumber(opt.v) THEN opt.v ELSE fallback

\* process.env[X] || 'default' for a text that is parsed.
TextOr(var, default) == IF var.set /\ var.s # <<>> THEN var.s ELSE default

\* options.baseUrl || process.env['KACHY_BASE_URL'] || default
StringOr(opt, var, default) ==
  IF opt.has /\ opt.v # "" THEN opt.v
  ELSE IF var.set /\ var.s # "" THEN var.s
  ELSE default

\* options.userAgent || default
UserAgentOr(opt, default) == IF opt.has /\ opt.v # "" THEN opt.v ELSE default

\* options.headers || {...}: an object, even an empty one, is truthy.
HeadersOr(opt, default) == IF opt.has THEN opt.v ELSE default

DefaultHeaders(userAgent) ==
  [h \in {"User-Agent", "Accept", "Content-Type"} |->
     IF h = "User-Agent" THEN userAgent ELSE "application/json"]

\* A mutant of MissingKey: only an absent key is refused.
MissingKeyAbsentOnly(accessKey) == accessKey = Undefined

\* !accessKey
MissingKey(accessKey) == accessKey = "" \/ accessKey = Undefined

\* new KachyConfig(accessKey, options) under the environment env: the
\* configuration, or the error the constructor throws.
KachyConfig(accessKey, options, env) ==
  IF MissingKey(accessKey)
    THEN [kind |-> "error", message |-> "KACHY_ACCESS_KEY is required"]
    ELSE [kind |-> "config",
          accessKey |-> accessKey,
          baseUrl |-> StringOr(options.baseUrl, env.KACHY_BASE_URL, "https://api.klache.net"),
          timeout |-> NumberOr(options.timeout,
                               parseInt(TextOr(env.KACHY_TIMEOUT, <<"3", "0">>))),
          maxRetries |-> NumberOr(options.maxRetries,
                                  parseInt(TextOr(env.KACHY_MAX_RETRIES, <<"3">>))),
          retryDelay |-> NumberOr(options.retryDelay,
                                  parseFloat(TextOr(env.KACHY_RETRY_DELAY, <<"1", ".", "0">>))),
          poolSize |-> NumberOr(options.poolSize,
                                parseInt(TextOr(env.KACHY_POOL_SIZE, <<"1", "0">>))),
          userAgent |-> UserAgentOr(options.userAgent, "kachy-valkey-node/0.1.0"),
          headers |-> HeadersOr(options.headers,
                        DefaultHeaders(UserAgentOr(options.userAgent,
                                                   "kachy-valkey-node/0.1.0")))]

\* KachyConfig.fromEnv()
fromEnv(env) ==
  IF ~env.KACHY_ACCESS_KEY.set \/ MissingKey(env.KACHY_ACCESS_KEY.s)
    THEN [kind |-> "error", message |-> "KACHY_ACCESS_KEY environment variable is required"]
    ELSE KachyConfig(env.KACHY_ACCESS_KEY.s, NoOptions, env)

(***************************************************************************)
(* KachyClient.createHttpClient: the transport's defaults and its two      *)
(* interceptors.                                                           *)
(***************************************************************************)
\* axios.create({baseURL, timeout, headers}) merged into a request config.
axiosDefaults(cfg, req) ==
  [k \in DOMAIN req \cup {"baseURL", "timeout", "headers"} |->
     CASE k = "baseURL" -> cfg.baseUrl
       [] k = "timeout" -> [cfg.timeout EXCEPT !.milli = @ * 1000]
       [] k = "headers" -> cfg.headers
       [] OTHER -> req[k]]

\* A mutant of requestInterceptor: a header the request already carries is kept.
requestInterceptorKeep(cfg, req) ==
  [req EXCEPT !.headers =
     [h \in DOMAIN req.headers \cup {"Authorization"} |->
        IF h \in DOMAIN req.headers THEN req.headers[h] ELSE "Bearer " \o cfg.accessKey]]

\* The request interceptor: config.headers.Authorization = `Bearer ${accessKey}`.
requestInterceptor(cfg, req) ==
  [req EXCEPT !.headers =
     [h \in DOMAIN req.headers \cup {"Authorization"} |->
        IF h = "Authorization" THEN "Bearer " \o cfg.accessKey ELSE req.headers[h]]]

\* The request as it leaves: this.httpClient.request(config).
httpClientRequest(cfg, req) == requestInterceptor(cfg, axiosDefaults(cfg, req))

KachyError(name, message) == [name |-> name, message |-> message]

\* A rejected request as axios reports it: error.response (status, the body's
\* message, statusText) when the server answered, error.code and error.message.
AxiosError(hasResponse, status, hasMessage, bodyMessage, statusText, code, message) ==
  [hasResponse |-> hasResponse, status |-> status, hasMessage |-> hasMessage,
   bodyMessage |-> bodyMessage, statusText |-> statusText, code |-> code,
   message |-> message]

\* JavaScript's a || b on strings that may be absent: a when it is truthy.
OrElse(hasA, a, b) == IF hasA /\ a # "" THEN a ELSE b

\* A mutant of responseInterceptor: the status test is > 400.
responseInterceptorOffByOne(error) ==
  IF error.hasResponse /\ error.status = 401
    THEN KachyError("KachyAuthenticationError", "Authentication failed")
  ELSE IF error.hasResponse /\ error.status > 400
    THEN KachyError("KachyResponseError",
           "API error " \o ToString(error.status) \o ": "
             \o OrElse(error.hasMessage, error.bodyMessage, error.statusText))
  ELSE IF error.code = "ECONNABORTED"
    THEN KachyError("KachyConnectionError", "Request timeout")
  ELSE IF error.code = "ENOTFOUND" \/ error.code = "ECONNREFUSED"
    THEN KachyError("KachyConnectionError", "Connection failed")
  ELSE KachyError("KachyConnectionError", "Request failed: " \o error.message)

\* The response interceptor's rejection handler.
responseInterceptor(error) ==
  IF error.hasResponse /\ error.status = 401
    THEN KachyError("KachyAuthenticationError", "Authentication failed")
  ELSE IF error.hasResponse /\ error.status >= 400
    THEN KachyError("KachyResponseError",
           "API error " \o ToString(error.status) \o ": "
             \o OrElse(error.hasMessage, error.bodyMessage, error.statusText))
  ELSE IF error.code = "ECONNABORTED"
    THEN KachyError("KachyConnectionError", "Request timeout")
  ELSE IF error.code = "ENOTFOUND" \/ error.code = "ECONNREFUSED"
    THEN KachyError("KachyConnectionError", "Connection failed")
  ELSE KachyError("KachyConnectionError", "Request failed: " \o error.message)

\* A mutant of makeRequest: a failed request is sent again while the attempts
\* made are fewer than config.maxRetries.
makeRequestRetrying(cfg, attempts, o) ==
  IF o.ok THEN [again |-> FALSE, status |-> "fulfilled", data |-> o.data]
  ELSE IF Num(attempts).milli < cfg.maxRetries.milli
    THEN [again |-> TRUE, status |-> "pending"]
    ELSE [again |-> FALSE, status |-> "rejected", reason |-> responseInterceptor(o.error)]

\* makeRequest once the request it awaits has ended as o: response.data, or the
\* interceptor's error thrown again.  It never sends the request again, however
\* many attempts config.maxRetries would allow.
makeRequest(cfg, attempts, o) ==
  IF o.ok THEN [again |-> FALSE, status |-> "fulfilled", data |-> o.data]
  ELSE [again |-> FALSE, status |-> "rejected", reason |-> responseInterceptor(o.error)]

(***************************************************************************)
(* KachyClient: the request each operation makes and the field of the      *)
(* response body it returns.                                               *)
(***************************************************************************)
ResponseField(op) ==
  CASE op = "set" -> "success"
    [] op = "get" -> "value"
    [] op = "delete" -> "deleted"
    [] op = "exists" -> "exists"
    [] op = "expire" -> "success"
    [] op = "ttl" -> "ttl"
    [] op = "redis" -> "result"

\* What the operation's promise settles to, given what makeRequest gave.
OperationSettle(op, made) ==
  IF made.status = "fulfilled"
    THEN [status |-> "fulfilled", value |-> made.data[ResponseField(op)]]
    ELSE [status |-> "rejected", reason |-> made.reason]

ClientSetRequest(key, value, ex) ==
  [method |-> "POST", url |-> "/valkey/set",
   data |-> IF ex # Undefined THEN [key |-> key, value |-> value, ex |-> ex]
            ELSE [key |-> key, value |-> value]]

ClientGetRequest(key) ==
  [method |-> "GET", url |-> "/valkey/get/" \o encodeURIComponent(key)]

ClientDeleteRequest(key) ==
  [method |-> "DELETE", url |-> "/valkey/del/" \o encodeURIComponent(key)]

ClientExistsRequest(key) ==
  [method |-> "GET", url |-> "/valkey/exists/" \o encodeURIComponent(key)]

ClientExpireRequest(key, seconds) ==
  [method |-> "POST", url |-> "/valkey/expire",
   data |-> [key |-> key, seconds |-> seconds]]

ClientTtlRequest(key) ==
  [method |-> "GET", url |-> "/valkey/ttl/" \o encodeURIComponent(key)]

ClientRedisRequest(command, args) ==
  [method |-> "POST", url |-> "/valkey/exec",
   data |-> [command |-> toUpperCase(command), args |-> args]]

(***************************************************************************)
(* The state.                                                              *)
(*   config     the KachyConfig the client was constructed with            *)
(*   commands   KachyPipeline.commands, the queue                          *)
(*   pc, idx, results   each execute() call: where it is, how many         *)
(*              elements its for..of iterator has taken, its local results *)
(* History, kept beside the program's state:                               *)
(*   lastCall   the last synchronous Pipeline method called, what it       *)
(*              returned and how many queued commands it dropped           *)
(*   sent, outcomes   the requests each execute() has put on the wire and  *)
(*              how each one ended                                         *)
(*   snapshot   the queue as it was when execute() was called              *)
(*   pending    the commands queued since the queue was last emptied       *)
(*   hasRun     whether an execute() has already run to its end            *)
(*   mutated, disturbed   whether a mutator, respectively a clear() or     *)
(*              another execute(), ran while this execute() was suspended  *)
(* The module-level handle of index.ts:                                    *)
(*   globalClient   the handle: null, or the client init() created         *)
(*   moduleCall     the last module-level function called and how it       *)
(*              ended (history)                                            *)
(*   latest     whether an init() has returned with no close() since, and  *)
(*              the client the most recent such init() created (history)   *)
(***************************************************************************)
VARIABLES config, commands, pc, idx, results, lastCall, sent, outcomes,
          snapshot, pending, hasRun, mutated, disturbed, call, options, env, built,
          given, globalClient, moduleCall, latest

vars == <<config, commands, pc, idx, results, lastCall, sent, outcomes,
          snapshot, pending, hasRun, mutated, disturbed, call, options, env, built,
          given, globalClient, moduleCall, latest>>

flowVars == <<pc, idx, results, sent, outcomes, snapshot, hasRun>>

pipelineVars == <<commands, pc, idx, results, lastCall, sent, outcomes,
                  snapshot, pending, hasRun, mutated, disturbed>>

\* The module-level handle and its history.
moduleVars == <<globalClient, moduleCall, latest>>

\* What the Pipeline's actions leave alone.
others == <<call, options, env, built, given, moduleVars>>

\* How a request can end: a 2xx response whose body is {result}, or a
\* rejection axios reports.
NoError == AxiosError(FALSE, 0, FALSE, "", "", "", "")

Fulfilled(body) == [ok |-> TRUE, data |-> body, error |-> NoError]

Rejected(error) == [ok |-> FALSE, data |-> [none |-> TRUE], error |-> error]

ServerError == AxiosError(TRUE, 500, TRUE, "boom", "Internal Server Error",
                          "ERR_BAD_RESPONSE", "Request failed with status code 500")

TimeoutError == AxiosError(FALSE, 0, FALSE, "", "", "ECONNABORTED",
                           "timeout of 30000ms exceeded")

ExecOutcomes ==
  {Fulfilled([result |-> "OK"]), Rejected(ServerError), Rejected(TimeoutError)}

\* KachyClient.redis as execute() awaits it: the result field of the body, or
\* the error the response interceptor throws, which makeRequest rethrows.
ClientRedisSettle(o) == OperationSettle("redis", makeRequest(config, 1, o))

\* The loop body of execute(): the entry pushed for one command.
CommandEntry(settled) ==
  IF settled.status = "fulfilled" THEN [value |-> settled.value]
  ELSE [error |-> settled.reason.message]

\* A mutant of Push: the command goes to the front of the queue.
PushFront(cmds, cmd) == <<cmd>> \o cmds

\* this.commands.push(cmd)
Push(cmds, cmd) == Append(cmds, cmd)

\* A mutant of ClearCommands: only the newest command is dropped.
ClearNewest(cmds) == IF cmds = <<>> THEN cmds ELSE SubSeq(cmds, 1, Len(cmds) - 1)

\* clear(): this.commands.length = 0
ClearCommands(cmds) == <<>>

\* return this
This == "this"

\* get length()
PipelineLength == Len(commands)

\* Mutants of ExecuteResume.
\* The entry goes to the front of the results.
ExecuteResumeUnshift(rs, i, cmds, settled) ==
  LET pushed == <<CommandEntry(settled)>> \o rs
  IN IF i < Len(cmds)
       THEN [pc |-> "awaiting", results |-> pushed, idx |-> i + 1, commands |-> cmds]
       ELSE [pc |-> "returned", results |-> pushed, idx |-> i, commands |-> <<>>]

\* No per-command try: a rejection reaches the outer catch, which clears the
\* queue and rethrows.
ExecuteResumeNoCatch(rs, i, cmds, settled) ==
  LET pushed == Append(rs, CommandEntry(settled))
  IN IF settled.status = "rejected"
       THEN [pc |-> "threw", results |-> rs, idx |-> i, commands |-> <<>>]
     ELSE IF i < Len(cmds)
       THEN [pc |-> "awaiting", results |-> pushed, idx |-> i + 1, commands |-> cmds]
       ELSE [pc |-> "returned", results |-> pushed, idx |-> i, commands |-> <<>>]

\* The queue is not cleared after the loop.
ExecuteResumeKeep(rs, i, cmds, settled) ==
  LET pushed == Append(rs, CommandEntry(settled))
  IN IF i < Len(cmds)
       THEN [pc |-> "awaiting", results |-> pushed, idx |-> i + 1, commands |-> cmds]
       ELSE [pc |-> "returned", results |-> pushed, idx |-> i, commands |-> cmds]

\* The loop stops one command early.
ExecuteResumeShort(rs, i, cmds, settled) ==
  LET pushed == Append(rs, CommandEntry(settled))
  IN IF i + 1 < Len(cmds)
       THEN [pc |-> "awaiting", results |-> pushed, idx |-> i + 1, commands |-> cmds]
       ELSE [pc |-> "returned", results |-> pushed, idx |-> i, commands |-> <<>>]

\* execute() from the moment the awaited request settles: push the entry, then
\* either take the next element of the live array (the iterator is done when
\* its index has reached the array's current length) or clear the queue and
\* return.  The per-command try catches every rejection, so nothing reaches the
\* outer catch, which would clear the queue and rethrow.
ExecuteResume(rs, i, cmds, settled) ==
  LET pushed == Append(rs, CommandEntry(settled))
  IN IF i < Len(cmds)
       THEN [pc |-> "awaiting", results |-> pushed, idx |-> i + 1, commands |-> cmds]
       ELSE [pc |-> "returned", results |-> pushed, idx |-> i, commands |-> <<>>]

\* The request execute() makes for the command its iterator hands it.
ReplayRequest(cmd) == httpClientRequest(config, ClientRedisRequest(cmd.command, cmd.args))

Awaiting(f) == pc[f] = "awaiting"

\* No execute() is in progress, and none has a result its caller has yet to take.
Quiet == call.pc = "idle" /\ \A f \in Flows : pc[f] = "idle"

(***************************************************************************)
(* Pipeline mutators and clear().                                          *)
(***************************************************************************)
Queue(method, cmd) ==
  /\ Len(commands) < MaxQueue
  /\ commands' = Push(commands, cmd)
  /\ pending' = Append(pending, cmd)
  /\ lastCall' = [method |-> method, returned |-> This, dropped |-> 0]
  /\ mutated' = [f \in Flows |-> mutated[f] \/ Awaiting(f)]
  /\ UNCHANGED <<config, others, flowVars, disturbed>>

Set(key, value, ex) == Queue("set", PipelineSet(key, value, ex))

Get(key) == Queue("get", PipelineGet(key))

Delete(key) == Queue("delete", PipelineDelete(key))

Exists(key) == Queue("exists", PipelineExists(key))

Expire(key, seconds) == Queue("expire", PipelineExpire(key, seconds))

Ttl(key) == Queue("ttl", PipelineTtl(key))

Redis(command, args) == Queue("redis", PipelineRedis(command, args))

Clear ==
  /\ commands' = ClearCommands(commands)
  /\ pending' = <<>>
  /\ lastCall' = [method |-> "clear", returned |-> This, dropped |-> Len(commands)]
  /\ disturbed' = [f \in Flows |-> disturbed[f] \/ Awaiting(f)]
  /\ UNCHANGED <<config, others, flowVars, mutated>>

(***************************************************************************)
(* execute()                                                               *)
(***************************************************************************)
\* A mutant of Execute: while another execute() is suspended the call
\* returns at once, as it does on an empty queue.
ExecuteExclusive(f) ==
  /\ pc[f] = "idle"
  /\ snapshot' = [snapshot EXCEPT ![f] = commands]
  /\ IF Len(commands) = 0 \/ \E h \in Flows \ {f} : Awaiting(h)
       THEN /\ pc' = [pc EXCEPT ![f] = "returned"]
            /\ UNCHANGED <<idx, sent>>
       ELSE /\ pc' = [pc EXCEPT ![f] = "awaiting"]
            /\ idx' = [idx EXCEPT ![f] = 1]
            /\ sent' = [sent EXCEPT ![f] = <<ReplayRequest(commands[1])>>]
  /\ disturbed' = [g \in Flows |->
                     IF g = f THEN \E h \in Flows \ {f} : Awaiting(h)
                     ELSE disturbed[g] \/ Awaiting(g)]
  /\ UNCHANGED <<config, others, commands, lastCall, results, outcomes, pending, hasRun, mutated>>

\* The call, up to its first await (or its early return on an empty queue).
Execute(f) ==
  /\ pc[f] = "idle"
  /\ snapshot' = [snapshot EXCEPT ![f] = commands]
  /\ IF Len(commands) = 0
       THEN /\ pc' = [pc EXCEPT ![f] = "returned"]
            /\ UNCHANGED <<idx, sent>>
       ELSE /\ pc' = [pc EXCEPT ![f] = "awaiting"]
            /\ idx' = [idx EXCEPT ![f] = 1]
            /\ sent' = [sent EXCEPT ![f] = <<ReplayRequest(commands[1])>>]
  /\ disturbed' = [g \in Flows |->
                     IF g = f THEN \E h \in Flows \ {f} : Awaiting(h)
                     ELSE disturbed[g] \/ Awaiting(g)]
  /\ UNCHANGED <<config, others, commands, lastCall, results, outcomes, pending, hasRun, mutated>>

\* A mutant of Settle: the loop runs over a copy of the queue taken when
\* execute() was called, and the queue is cleared after it.
SettleOverCopy(f, o) ==
  /\ Awaiting(f)
  /\ LET r == ExecuteResume(results[f], idx[f], snapshot[f], ClientRedisSettle(o))
     IN /\ pc' = [pc EXCEPT ![f] = r.pc]
        /\ results' = [results EXCEPT ![f] = r.results]
        /\ idx' = [idx EXCEPT ![f] = r.idx]
        /\ commands' = IF r.pc = "awaiting" THEN commands ELSE <<>>
        /\ outcomes' = [outcomes EXCEPT ![f] = Append(outcomes[f], o)]
        /\ sent' = IF r.pc = "awaiting"
                     THEN [sent EXCEPT ![f] = Append(sent[f], ReplayRequest(snapshot[f][r.idx]))]
                     ELSE sent
        /\ pending' = IF r.pc = "awaiting" THEN pending ELSE <<>>
  /\ UNCHANGED <<config, others, lastCall, snapshot, hasRun, mutated, disturbed>>

\* The awaited request settles and execute() runs to its next await or to its
\* end.
Settle(f, o) ==
  /\ Awaiting(f)
  /\ LET r == ExecuteResume(results[f], idx[f], commands, ClientRedisSettle(o))
     IN /\ pc' = [pc EXCEPT ![f] = r.pc]
        /\ results' = [results EXCEPT ![f] = r.results]
        /\ idx' = [idx EXCEPT ![f] = r.idx]
        /\ commands' = r.commands
        /\ outcomes' = [outcomes EXCEPT ![f] = Append(outcomes[f], o)]
        /\ sent' = IF r.pc = "awaiting"
                     THEN [sent EXCEPT ![f] = Append(sent[f], ReplayRequest(commands[r.idx]))]
                     ELSE sent
        /\ pending' = IF r.pc = "awaiting" THEN pending ELSE <<>>
  /\ UNCHANGED <<config, others, lastCall, snapshot, hasRun, mutated, disturbed>>

\* The caller takes what execute() returned (or threw); the flow may call
\* execute() again.
Return(f) ==
  /\ pc[f] \in {"returned", "threw"}
  /\ pc' = [pc EXCEPT ![f] = "idle"]
  /\ idx' = [idx EXCEPT ![f] = 0]
  /\ results' = [results EXCEPT ![f] = <<>>]
  /\ sent' = [sent EXCEPT ![f] = <<>>]
  /\ outcomes' = [outcomes EXCEPT ![f] = <<>>]
  /\ snapshot' = [snapshot EXCEPT ![f] = <<>>]
  /\ hasRun' = TRUE
  /\ mutated' = [mutated EXCEPT ![f] = FALSE]
  /\ disturbed' = [disturbed EXCEPT ![f] = FALSE]
  /\ UNCHANGED <<config, others, commands, lastCall, pending>>

(***************************************************************************)
(* KachyClient operations called directly.                                 *)
(*   call   the operation in progress: where it is, the requests it has    *)
(*          put on the wire, how the last one ended and what the           *)
(*          operation's promise settled to (history but for pc)            *)
(***************************************************************************)
NoCall == [pc |-> "idle", op |-> "none", sent |-> <<>>, outcome |-> Rejected(NoError),
           settled |-> [status |-> "pending"]]

\* The operation up to the await in makeRequest: its one request is sent.
Operation(op, req) ==
  /\ call.pc = "idle"
  /\ call' = [NoCall EXCEPT !.pc = "awaiting", !.op = op,
                            !.sent = <<httpClientRequest(config, req)>>]
  /\ UNCHANGED <<config, pipelineVars, options, env, built, given, moduleVars>>

ClientSet(key, value, ex) == Operation("set", ClientSetRequest(key, value, ex))

ClientGet(key) == Operation("get", ClientGetRequest(key))

ClientDelete(key) == Operation("delete", ClientDeleteRequest(key))

ClientExists(key) == Operation("exists", ClientExistsRequest(key))

ClientExpire(key, seconds) == Operation("expire", ClientExpireRequest(key, seconds))

ClientTtl(key) == Operation("ttl", ClientTtlRequest(key))

ClientRedis(command, args) == Operation("redis", ClientRedisRequest(command, args))

\* The request ends as o and the operation runs to its end.
ClientSettle(o) ==
  /\ call.pc = "awaiting"
  /\ LET made == makeRequest(config, Len(call.sent), o)
     IN call' = IF made.again
                  THEN [call EXCEPT !.sent = Append(@, @[Len(@)]), !.outcome = o]
                  ELSE [call EXCEPT !.pc = "settled", !.outcome = o,
                                    !.settled = OperationSettle(call.op, made)]
  /\ UNCHANGED <<config, pipelineVars, options, env, built, given, moduleVars>>

\* The caller takes the result.
ClientReturn ==
  /\ call.pc = "settled"
  /\ call' = NoCall
  /\ UNCHANGED <<config, pipelineVars, options, env, built, given, moduleVars>>

\* The bodies a 2xx response to each operation may carry.
Bodies(op) ==
  CASE op = "set" -> {[success |-> TRUE]}
    [] op = "get" -> {[value |-> "v"], [value |-> "null"]}
    [] op = "delete" -> {[deleted |-> TRUE], [deleted |-> FALSE]}
    [] op = "exists" -> {[exists |-> TRUE], [exists |-> FALSE]}
    [] op = "expire" -> {[success |-> TRUE], [success |-> FALSE]}
    [] op = "ttl" -> {[ttl |-> 1800], [ttl |-> -2]}
    [] op = "redis" -> {[result |-> "OK"]}
    [] OTHER -> {}

StaleHeaders ==
  [h \in {"Authorization", "Accept"} |->
     IF h = "Authorization" THEN "Bearer stale" ELSE "application/json"]

SpecConfigs ==
  {KachyConfig(k, [NoOptions EXCEPT !.headers = h], NoEnv) :
     k \in AccessKeys, h \in {Absent(NoHeaders), Given(StaleHeaders)}}

\* let globalClient: KachyClient | null = null
Null == [kind |-> "null"]

\* Nothing queued, nothing in progress, nothing constructed.
Fresh ==
  /\ commands = <<>>
  /\ pending = <<>>
  /\ lastCall = [method |-> "none", returned |-> "none", dropped |-> 0]
  /\ pc = [f \in Flows |-> "idle"]
  /\ idx = [f \in Flows |-> 0]
  /\ results = [f \in Flows |-> <<>>]
  /\ sent = [f \in Flows |-> <<>>]
  /\ outcomes = [f \in Flows |-> <<>>]
  /\ snapshot = [f \in Flows |-> <<>>]
  /\ hasRun = FALSE
  /\ mutated = [f \in Flows |-> FALSE]
  /\ disturbed = [f \in Flows |-> FALSE]
  /\ call = NoCall
  /\ options = NoOptions
  /\ env = NoEnv
  /\ built = [kind |-> "none"]
  /\ given = [how |-> "none", accessKey |-> Undefined]
  /\ globalClient = Null
  /\ moduleCall = [seq |-> 0, fn |-> "none", status |-> "none", message |-> "", client |-> Null]
  /\ latest = [live |-> FALSE, client |-> Null]

Init == config \in SpecConfigs /\ Fresh

\* One logical flow at a time uses the Pipeline: commands are queued or
\* cleared between executes, never during one.
Next ==
  \/ \E k \in Keys, v \in Values, ex \in Seconds \cup {Undefined} : Quiet /\ Set(k, v, ex)
  \/ \E k \in Keys : Quiet /\ Get(k)
  \/ \E k \in Keys : Quiet /\ Delete(k)
  \/ \E k \in Keys : Quiet /\ Exists(k)
  \/ \E k \in Keys, s \in Seconds : Quiet /\ Expire(k, s)
  \/ \E k \in Keys : Quiet /\ Ttl(k)
  \/ \E c \in RawNames, k \in Keys : Quiet /\ Redis(c, <<k>>)
  \/ Quiet /\ Clear
  \/ \E f \in Flows : Quiet /\ Execute(f)
  \/ \E f \in Flows, o \in ExecOutcomes : Settle(f, o)
  \/ \E f \in Flows : Return(f)
  \/ \E k \in Keys, v \in Values, ex \in Seconds \cup {Undefined} : Quiet /\ ClientSet(k, v, ex)
  \/ \E k \in Keys : Quiet /\ ClientGet(k)
  \/ \E k \in Keys : Quiet /\ ClientDelete(k)
  \/ \E k \in Keys : Quiet /\ ClientExists(k)
  \/ \E k \in Keys, s \in Seconds : Quiet /\ ClientExpire(k, s)
  \/ \E k \in Keys : Quiet /\ ClientTtl(k)
  \/ \E c \in RawNames, k \in Keys : Quiet /\ ClientRedis(c, <<k>>)
  \/ \E o \in {Fulfilled(b) : b \in Bodies(call.op)}
             \cup {Rejected(ServerError), Rejected(TimeoutError)} : ClientSettle(o)
  \/ ClientReturn

Spec == Init /\ [][Next]_vars

(***************************************************************************)
(* The client on its own: every operation, under configurations that set   *)
(* the retry fields, against every way a request can fail.                 *)
(***************************************************************************)
ClientKeys == {"k:1", "a b"}

StatusText(status) ==
  CASE status = 302 -> "Found"
    [] status = 400 -> "Bad Request"
    [] status = 401 -> "Unauthorized"
    [] status = 404 -> "Not Found"
    [] status = 500 -> "Internal Server Error"

\* The server answered with a status outside 2xx; the body may carry a message.
HttpErrors ==
  {AxiosError(TRUE, st, b[1], b[2], StatusText(st),
              IF st >= 500 THEN "ERR_BAD_RESPONSE" ELSE "ERR_BAD_REQUEST",
              "Request failed with status code " \o ToString(st)) :
     st \in {302, 400, 401, 404, 500},
     b \in {<<FALSE, "">>, <<TRUE, "">>, <<TRUE, "boom">>}}

\* No response arrived.
TransportErrors ==
  {AxiosError(FALSE, 0, FALSE, "", "", c[1], c[2]) :
     c \in {<<"ECONNABORTED", "timeout of 30000ms exceeded">>,
            <<"ENOTFOUND", "getaddrinfo ENOTFOUND api.klache.net">>,
            <<"ECONNREFUSED", "connect ECONNREFUSED 127.0.0.1:443">>,
            <<"ECONNRESET", "read ECONNRESET">>,
            <<"ERR_NETWORK", "Network Error">>}}

AxiosErrors == HttpErrors \cup TransportErrors

ClientConfigs ==
  {KachyConfig(k, [NoOptions EXCEPT !.maxRetries = r, !.retryDelay = d], NoEnv) :
     k \in AccessKeys,
     r \in {Absent(NaN), Given(Num(1)), Given(Num(5))},
     d \in {Absent(NaN), Given(Num(2))}}

ClientInit == config \in ClientConfigs /\ Fresh

ClientNext ==
  \/ \E k \in ClientKeys, v \in Values, ex \in Seconds \cup {Undefined} : ClientSet(k, v, ex)
  \/ \E k \in ClientKeys : ClientGet(k)
  \/ \E k \in ClientKeys : ClientDelete(k)
  \/ \E k \in ClientKeys : ClientExists(k)
  \/ \E k \in ClientKeys, sec \in Seconds : ClientExpire(k, sec)
  \/ \E k \in ClientKeys : ClientTtl(k)
  \/ \E c \in RawNames, k \in ClientKeys : ClientRedis(c, <<k>>)
  \/ \E o \in {Fulfilled(b) : b \in Bodies(call.op)}
             \cup {Rejected(e) : e \in AxiosErrors} : ClientSettle(o)
  \/ ClientReturn

ClientSpec == ClientInit /\ [][ClientNext]_vars

(***************************************************************************)
(* The configuration on its own.  The caller fills in options, the         *)
(* environment is set, and then a KachyConfig is constructed from them.    *)
(*   options, env   what the constructor will read                         *)
(*   built          what the construction gave: nothing yet, a             *)
(*                  configuration, or the error thrown                     *)
(*   given          how it was constructed, and the access key passed      *)
(*                  (history)                                              *)
(***************************************************************************)
OptionValues(o) ==
  CASE o = "baseUrl" -> {"", "https://custom.example"}
    [] o = "timeout" -> {Num(0), Num(60)}
    [] o = "maxRetries" -> {Num(0), Num(5)}
    [] o = "retryDelay" -> {Num(0), parseFloat(<<"0", ".", "5">>)}
    [] o = "poolSize" -> {Num(0), Num(20)}

EnvValues(e) ==
  CASE e = "KACHY_BASE_URL" -> {"", "https://env.example"}
    [] e = "KACHY_ACCESS_KEY" -> {"", "env-key"}
    [] OTHER -> {<<>>, <<"0">>, <<"4", "5">>, <<"4", "5", "s">>, <<"a", "b", "c">>,
                 <<"2", ".", "5">>}

Overrides ==
  Cardinality({o \in DOMAIN options : options[o].has})
    + Cardinality({e \in DOMAIN env : env[e].set})

SetOption(o, v) ==
  /\ built.kind = "none"
  /\ ~options[o].has
  /\ Overrides < MaxOverrides
  /\ options' = [options EXCEPT ![o] = Given(v)]
  /\ UNCHANGED <<config, pipelineVars, call, env, built, given, moduleVars>>

SetEnv(e, text) ==
  /\ built.kind = "none"
  /\ ~env[e].set
  /\ Overrides < MaxOverrides
  /\ env' = [env EXCEPT ![e] = EnvSet(text)]
  /\ UNCHANGED <<config, pipelineVars, call, options, built, given, moduleVars>>

Construct(accessKey) ==
  /\ built.kind = "none"
  /\ built' = KachyConfig(accessKey, options, env)
  /\ given' = [how |-> "constructor", accessKey |-> accessKey]
  /\ UNCHANGED <<config, pipelineVars, call, options, env, moduleVars>>

FromEnv ==
  /\ built.kind = "none"
  /\ \A o \in DOMAIN options : ~options[o].has
  /\ built' = fromEnv(env)
  /\ given' = [how |-> "fromEnv", accessKey |-> Undefined]
  /\ UNCHANGED <<config, pipelineVars, call, options, env, moduleVars>>

ConfigInit == config \in SpecConfigs /\ Fresh

ConfigNext ==
  \/ \E o \in NumberOptions \cup {"baseUrl"} : \E v \in OptionValues(o) : SetOption(o, v)
  \/ \E e \in DOMAIN NoEnv : \E text \in EnvValues(e) : SetEnv(e, text)
  \/ \E k \in AccessKeys \cup {"", Undefined} : Construct(k)
  \/ FromEnv

ConfigSpec == ConfigInit /\ [][ConfigNext]_vars

(***************************************************************************)
(* The module-level functions of index.ts: init, getClient, the            *)
(* convenience functions and close, over the handle globalClient.  A       *)
(* convenience function that reaches the client starts the client's        *)
(* operation, which ends by ClientSettle and ClientReturn; init and close  *)
(* may run while it is in flight.                                          *)
(***************************************************************************)
\* new KachyClient(config)
NewKachyClient(cfg) == [kind |-> "client", config |-> cfg]

NotInitialized == "Kachy client not initialized. Call kachy.init() first."

\* getClient(): the handle, or the error thrown when it is null.
getClient(handle) ==
  IF handle.kind = "null"
    THEN [threw |-> TRUE, message |-> NotInitialized, client |-> Null]
    ELSE [threw |-> FALSE, message |-> "", client |-> handle]

\* A mutant of initGlobal: a handle already set is kept.
initGlobalOnce(handle, cfg) ==
  IF cfg.kind = "error" \/ handle.kind = "client" THEN handle ELSE NewKachyClient(cfg)

\* init(): the handle after the call.  When the constructor of KachyConfig
\* throws, the assignment is not reached.
initGlobal(handle, cfg) ==
  IF cfg.kind = "error" THEN handle ELSE NewKachyClient(cfg)

\* close(): the handle after the call.  KachyClient.close() does nothing.
closeGlobal(handle) == IF handle.kind = "client" THEN Null ELSE handle

Called(fn, status, message, client) ==
  [seq |-> 1 - moduleCall.seq, fn |-> fn, status |-> status, message |-> message,
   client |-> client]

KachyInit(accessKey, opts) ==
  LET cfg == KachyConfig(accessKey, opts, env)
  IN /\ globalClient' = initGlobal(globalClient, cfg)
     /\ IF cfg.kind = "error"
          THEN /\ moduleCall' = Called("init", "threw", cfg.message, Null)
               /\ UNCHANGED latest
          ELSE /\ moduleCall' = Called("init", "returned", "", globalClient')
               /\ latest' = [live |-> TRUE, client |-> NewKachyClient(cfg)]
     /\ UNCHANGED <<config, pipelineVars, call, options, env, built, given>>

KachyGetClient ==
  LET got == getClient(globalClient)
  IN /\ moduleCall' = IF got.threw THEN Called("getClient", "threw", got.message, Null)
                      ELSE Called("getClient", "returned", "", got.client)
     /\ UNCHANGED <<config, pipelineVars, call, options, env, built, given, globalClient,
                    latest>>

\* A convenience function: getClient(), then the client's operation up to
\* the await in makeRequest.
Convenience(fn, op, req) ==
  LET got == getClient(globalClient)
  IN /\ call.pc = "idle"
     /\ IF got.threw
          THEN /\ moduleCall' = Called(fn, "threw", got.message, Null)
               /\ UNCHANGED call
          ELSE /\ moduleCall' = Called(fn, "returned", "", got.client)
               /\ call' = [NoCall EXCEPT !.pc = "awaiting", !.op = op,
                             !.sent = <<httpClientRequest(got.client.config, req)>>]
     /\ UNCHANGED <<config, pipelineVars, options, env, built, given, globalClient, latest>>

KachySet(key, value, ex) == Convenience("set", "set", ClientSetRequest(key, value, ex))

KachyGet(key) == Convenience("get", "get", ClientGetRequest(key))

KachyDeleteKey(key) == Convenience("deleteKey", "delete", ClientDeleteRequest(key))

KachyExists(key) == Convenience("exists", "exists", ClientExistsRequest(key))

KachyExpire(key, seconds) ==
  Convenience("expire", "expire", ClientExpireRequest(key, seconds))

KachyTtl(key) == Convenience("ttl", "ttl", ClientTtlRequest(key))

KachyValkey(command, args) ==
  Convenience("valkey", "redis", ClientRedisRequest(command, args))

\* pipeline(): getClient().pipeline(), a new Pipeline on the client.
KachyPipeline ==
  LET got == getClient(globalClient)
  IN /\ moduleCall' = IF got.threw THEN Called("pipeline", "threw", got.message, Null)
                      ELSE Called("pipeline", "returned", "", got.client)
     /\ UNCHANGED <<config, pipelineVars, call, options, env, built, given, globalClient,
                    latest>>

KachyClose ==
  /\ globalClient' = closeGlobal(globalClient)
  /\ moduleCall' = Called("close", "returned", "", Null)
  /\ latest' = [latest EXCEPT !.live = FALSE]
  /\ UNCHANGED <<config, pipelineVars, call, options, env, built, given>>

InitOptions == {NoOptions, [NoOptions EXCEPT !.baseUrl = Given("https://custom.example")]}

ModuleInit == config = KachyConfig("key-1", NoOptions, NoEnv) /\ Fresh

ModuleNext ==
  \/ \E k \in AccessKeys \cup {"", Undefined}, opts \in InitOptions : KachyInit(k, opts)
  \/ KachyGetClient
  \/ \E k \in Keys, v \in Values, ex \in Seconds \cup {Undefined} : KachySet(k, v, ex)
  \/ \E k \in Keys : KachyGet(k)
  \/ \E k \in Keys : KachyDeleteKey(k)
  \/ \E k \in Keys : KachyExists(k)
  \/ \E k \in Keys, s \in Seconds : KachyExpire(k, s)
  \/ \E k \in Keys : KachyTtl(k)
  \/ \E c \in RawNames, k \in Keys : KachyValkey(c, <<k>>)
  \/ KachyPipeline
  \/ KachyClose
  \/ \E o \in {Fulfilled(b) : b \in Bodies(call.op)}
             \cup {Rejected(ServerError), Rejected(TimeoutError)} : ClientSettle(o)
  \/ ClientReturn

ModuleSpec == ModuleInit /\ [][ModuleNext]_vars

(***************************************************************************)
(* One Pipeline used without the discipline of Spec: mutators, clear() and *)
(* a second execute() may run while an execute() is suspended at its       *)
(* await.  JavaScript runs each of them to its next await without          *)
(* interruption, so the actions interleave whole.                          *)
(***************************************************************************)
ConcOutcomes == {Fulfilled([result |-> "OK"])}

ConcInit == config = KachyConfig("key-1", NoOptions, NoEnv) /\ Fresh

\* The Pipeline is used for one round: once an execute() has been taken by
\* its caller, nothing new is started.  A clear() comes in while an execute()
\* that nothing has yet interfered with is suspended.
ConcNext ==
  \/ \E k \in Keys : ~hasRun /\ Get(k)
  \/ \E c \in RawNames, k \in Keys : ~hasRun /\ Redis(c, <<k>>)
  \/ ~hasRun /\ (\E f \in Flows : Awaiting(f) /\ ~disturbed[f]) /\ Clear
  \/ \E f \in Flows : ~hasRun /\ Execute(f)
  \/ \E f \in Flows, o \in ConcOutcomes : Settle(f, o)
  \/ \E f \in Flows : Return(f)

ConcSpec == ConcInit /\ [][ConcNext]_vars

(***************************************************************************)
(* What the claims are stated with.                                        *)
(***************************************************************************)
\* execute() call f has ended, by returning or by throwing.
Ended(f) == pc[f] \in {"returned", "threw"}

\* Nothing else was called on the Pipeline while execute() call f ran.
SingleFlow(f) == ~mutated[f] /\ ~disturbed[f]

\* The entry a request's outcome should give: the returned value, or the error
\* descriptor carrying the message of the error the client raised.
OutcomeEntry(o) ==
  IF o.ok THEN [value |-> o.data.result]
  ELSE [error |-> responseInterceptor(o.error).message]

\* Request r is the raw-command (exec) request for queued command cmd.
IsExecRequestFor(r, cmd) ==
  /\ r.method = "POST"
  /\ r.url = "/valkey/exec"
  /\ r.data = [command |-> cmd.command, args |-> cmd.args]

(***************************************************************************)
(* C1: when nothing else is called on the Pipeline while execute() runs,   *)
(* execute() returns exactly one entry per command that was queued when it *)
(* was called, and the i-th entry is the outcome of the request made for   *)
(* the i-th queued command.                                                *)
(***************************************************************************)
C1_ResultsAligned ==
  \A f \in Flows :
    (pc[f] = "returned" /\ SingleFlow(f)) =>
      /\ Len(results[f]) = Len(snapshot[f])
      /\ Len(sent[f]) = Len(snapshot[f])
      /\ Len(outcomes[f]) = Len(snapshot[f])
      /\ \A i \in 1..Len(snapshot[f]) :
           /\ IsExecRequestFor(sent[f][i], snapshot[f][i])
           /\ results[f][i] = OutcomeEntry(outcomes[f][i])

\* Two different commands were replayed and ended differently.
C1_Witness ==
  \E f \in Flows :
    /\ pc[f] = "returned"
    /\ SingleFlow(f)
    /\ Len(snapshot[f]) >= 2
    /\ snapshot[f][1] # snapshot[f][2]
    /\ results[f][1] # results[f][2]

(***************************************************************************)
(* C2: a command that fails during execute() leaves an error descriptor at *)
(* its own position and nowhere else, the commands queued after it are     *)
(* still sent and reported at their own positions, and execute() returns   *)
(* normally (for an execute() during which nothing else is called on the   *)
(* Pipeline).                                                              *)
(***************************************************************************)
C2_FailureIsolated ==
  \A f \in Flows :
    (Ended(f) /\ SingleFlow(f)) =>
      /\ pc[f] = "returned"
      /\ Len(sent[f]) = Len(snapshot[f])
      /\ Len(results[f]) = Len(snapshot[f])
      /\ \A i \in 1..Len(results[f]) :
           /\ ("error" \in DOMAIN results[f][i]) <=> ~outcomes[f][i].ok
           /\ outcomes[f][i].ok => results[f][i] = [value |-> outcomes[f][i].data.result]
           /\ IsExecRequestFor(sent[f][i], snapshot[f][i])

\* The first command failed, the second was still sent and succeeded.
C2_Witness ==
  \E f \in Flows :
    /\ pc[f] = "returned"
    /\ Len(snapshot[f]) >= 2
    /\ ~outcomes[f][1].ok
    /\ outcomes[f][2].ok
    /\ "error" \in DOMAIN results[f][1]
    /\ results[f][2] = [value |-> "OK"]

(***************************************************************************)
(* C3: the step that ends an execute() leaves the queue empty and the      *)
(* length accessor at 0, and the queue an execute() starts from holds      *)
(* exactly the commands queued since the queue was last emptied, so a      *)
(* later execute() replays nothing an earlier one has replayed.            *)
(***************************************************************************)
C3_ClearedAfterExecute ==
  [][\A f \in Flows :
       /\ (~Ended(f) /\ Ended(f)') => (commands' = <<>> /\ PipelineLength' = 0)
       /\ (pc[f] = "idle" /\ pc'[f] # "idle") =>
            (commands = pending /\ snapshot'[f] = pending)]_vars

\* A second execute() has returned results, and the queue is empty again.
C3_Witness ==
  \E f \in Flows :
    /\ hasRun
    /\ pc[f] = "returned"
    /\ Len(results[f]) >= 1
    /\ PipelineLength = 0

(***************************************************************************)
(* C4: each mutator appends exactly one command, the one it is called for, *)
(* at the end of the queue, leaves the commands already queued where they  *)
(* are, raises the length accessor by 1, sends no request and returns the  *)
(* Pipeline.                                                               *)
(***************************************************************************)
Appends(cmd) ==
  /\ commands' = Append(commands, cmd)
  /\ SubSeq(commands', 1, Len(commands)) = commands
  /\ PipelineLength' = PipelineLength + 1
  /\ sent' = sent
  /\ lastCall'.returned = "this"

C4_MutatorAppendsOne ==
  [][/\ \A k \in Keys, v \in Values :
          Set(k, v, Undefined) => Appends([command |-> "SET", args |-> <<k, v>>])
     /\ \A k \in Keys, v \in Values, ex \in Seconds :
          Set(k, v, ex) => Appends([command |-> "SET", args |-> <<k, v, ex>>])
     /\ \A k \in Keys : Get(k) => Appends([command |-> "GET", args |-> <<k>>])
     /\ \A k \in Keys : Delete(k) => Appends([command |-> "DEL", args |-> <<k>>])
     /\ \A k \in Keys : Exists(k) => Appends([command |-> "EXISTS", args |-> <<k>>])
     /\ \A k \in Keys, s \in Seconds :
          Expire(k, s) => Appends([command |-> "EXPIRE", args |-> <<k, s>>])
     /\ \A k \in Keys : Ttl(k) => Appends([command |-> "TTL", args |-> <<k>>])
     /\ \A k \in Keys : Redis("hmget", <<k>>) =>
          Appends([command |-> "HMGET", args |-> <<k>>])]_vars

\* A second, different command has been queued behind a first one.
C4_Witness ==
  /\ Len(commands) >= 2
  /\ commands[1] # commands[2]
  /\ lastCall.method # "clear"
  /\ lastCall.returned = "this"
  /\ \A f \in Flows : sent[f] = <<>>

(***************************************************************************)
(* C5: execute() sends one exec request per queued command, in queue       *)
(* order, and never has more than one request outstanding: the request for *)
(* the next command is sent only once the one before it has settled.  On   *)
(* an empty queue it sends nothing and returns the empty sequence.         *)
(***************************************************************************)
C5_OneRequestPerCommandInOrder ==
  \A f \in Flows :
    /\ Len(sent[f]) = Len(outcomes[f]) + (IF Awaiting(f) THEN 1 ELSE 0)
    /\ SingleFlow(f) =>
         /\ Len(sent[f]) <= Len(snapshot[f])
         /\ \A i \in 1..Len(sent[f]) : IsExecRequestFor(sent[f][i], snapshot[f][i])
         /\ Ended(f) => Len(sent[f]) = Len(snapshot[f])
         /\ (Ended(f) /\ snapshot[f] = <<>>) => (sent[f] = <<>> /\ results[f] = <<>>)

\* The second request is out while the first has settled and nothing else has.
C5_Witness ==
  \E f \in Flows :
    /\ Awaiting(f)
    /\ Len(snapshot[f]) >= 2
    /\ Len(sent[f]) = 2
    /\ Len(outcomes[f]) = 1
    /\ sent[f][1] # sent[f][2]

(***************************************************************************)
(* C6: clear() empties the queue without sending anything and returns the  *)
(* Pipeline, and an execute() that follows it with nothing queued in       *)
(* between returns the empty sequence without sending anything.            *)
(***************************************************************************)
C6_ClearDiscards ==
  [][/\ Clear => /\ commands' = <<>>
                 /\ PipelineLength' = 0
                 /\ sent' = sent
                 /\ outcomes' = outcomes
                 /\ lastCall'.returned = "this"
     /\ \A f \in Flows :
          (lastCall.method = "clear" /\ Execute(f)) =>
             /\ pc'[f] = "returned"
             /\ results'[f] = <<>>
             /\ sent'[f] = <<>>]_vars

\* clear() dropped two commands and the execute() after it returned nothing.
C6_Witness ==
  \E f \in Flows :
    /\ lastCall.method = "clear"
    /\ lastCall.dropped >= 2
    /\ pc[f] = "returned"
    /\ results[f] = <<>>
    /\ sent[f] = <<>>

(***************************************************************************)
(* C7 as claimed: the Response error carries the body's message field      *)
(* whenever the body has one.                                              *)
(***************************************************************************)
\* The error the taxonomy assigns to a failed request; message is the text a
\* Response error carries after the status code.
TaxonomyError(e, message) ==
  CASE e.hasResponse /\ e.status = 401 ->
         [name |-> "KachyAuthenticationError", message |-> "Authentication failed"]
    [] e.hasResponse /\ e.status # 401 /\ e.status >= 400 ->
         [name |-> "KachyResponseError",
          message |-> "API error " \o ToString(e.status) \o ": " \o message]
    [] ~(e.hasResponse /\ e.status >= 400) /\ e.code = "ECONNABORTED" ->
         [name |-> "KachyConnectionError", message |-> "Request timeout"]
    [] ~(e.hasResponse /\ e.status >= 400) /\ e.code \in {"ENOTFOUND", "ECONNREFUSED"} ->
         [name |-> "KachyConnectionError", message |-> "Connection failed"]
    [] OTHER ->
         [name |-> "KachyConnectionError", message |-> "Request failed: " \o e.message]

\* A settled operation was rejected exactly when its request failed, and then
\* with the taxonomy's error.
SurfacesAs(message(_)) ==
  call.pc = "settled" =>
    /\ (call.settled.status = "rejected") <=> ~call.outcome.ok
    /\ ~call.outcome.ok =>
         call.settled.reason = TaxonomyError(call.outcome.error, message(call.outcome.error))

MessageIfPresent(e) == IF e.hasMessage THEN e.bodyMessage ELSE e.statusText

C7_AsClaimed == SurfacesAs(MessageIfPresent)

(***************************************************************************)
(* C7, amended: every failed request of every operation is rejected with   *)
(* the one error the taxonomy assigns it, where a Response error carries   *)
(* the body's message field if it is present and not empty, else the       *)
(* status text; no failure settles as a result.                            *)
(***************************************************************************)
MessageIfNotEmpty(e) ==
  IF e.hasMessage /\ e.bodyMessage # "" THEN e.bodyMessage ELSE e.statusText

C7_ErrorTaxonomy == SurfacesAs(MessageIfNotEmpty)

\* A 404 whose body has a message was surfaced as a Response error carrying it.
C7_Witness ==
  /\ call.pc = "settled"
  /\ call.outcome.error.hasResponse
  /\ call.outcome.error.status = 404
  /\ call.outcome.error.bodyMessage = "boom"
  /\ call.settled = [status |-> "rejected",
                     reason |-> [name |-> "KachyResponseError",
                                 message |-> "API error 404: boom"]]

(***************************************************************************)
(* C8: an operation puts exactly one request on the wire, also when the    *)
(* request fails, whatever maxRetries and retryDelay are configured.       *)
(***************************************************************************)
C8_NoRetry ==
  /\ call.pc # "idle" => Len(call.sent) = 1
  /\ (call.pc = "awaiting" /\ ~call.outcome.ok) => call.outcome.error = NoError

\* A request failed under maxRetries = 5 and the operation ended with one sent.
C8_Witness ==
  /\ call.pc = "settled"
  /\ call.settled.status = "rejected"
  /\ config.maxRetries = Num(5)
  /\ config.retryDelay = Num(2)
  /\ Len(call.sent) = 1

(***************************************************************************)
(* C9: every request sent, by an operation called directly or by a         *)
(* Pipeline replaying its queue, carries Authorization: Bearer <the access *)
(* key of the client's configuration>, also when the configured headers    *)
(* bring an Authorization of their own.                                    *)
(***************************************************************************)
Authorized(r) ==
  /\ "Authorization" \in DOMAIN r.headers
  /\ r.headers["Authorization"] = "Bearer " \o config.accessKey

C9_BearerOnEveryRequest ==
  /\ \A i \in 1..Len(call.sent) : Authorized(call.sent[i])
  /\ \A f \in Flows : \A i \in 1..Len(sent[f]) : Authorized(sent[f][i])

\* A Pipeline has replayed two commands under headers that carry a stale token.
C9_Witness ==
  \E f \in Flows :
    /\ Len(sent[f]) >= 2
    /\ "Authorization" \in DOMAIN config.headers
    /\ config.headers["Authorization"] # "Bearer " \o config.accessKey
    /\ sent[f][2].headers["Authorization"] = "Bearer " \o config.accessKey

(***************************************************************************)
(* C10: each of baseUrl, timeout, maxRetries, retryDelay and poolSize      *)
(* resolves to the option when one is given, whatever the environment      *)
(* holds; otherwise to the environment variable's value when it is set     *)
(* (to some text); otherwise to the default: the default service URL, 30,  *)
(* 3, 1.0, 10.                                                             *)
(***************************************************************************)
Precedence(opt, hasText, fromText, default) ==
  IF opt.has THEN opt.v
  ELSE IF hasText THEN fromText
  ELSE default

NumberPrecedence(opt, var, fromText(_), default) ==
  Precedence(opt, var.set /\ var.s # <<>>, fromText(var.s), default)

C10_Precedence ==
  built.kind = "config" =>
    /\ built.baseUrl = Precedence(options.baseUrl,
                                  env.KACHY_BASE_URL.set /\ env.KACHY_BASE_URL.s # "",
                                  env.KACHY_BASE_URL.s, "https://api.klache.net")
    /\ built.timeout = NumberPrecedence(options.timeout, env.KACHY_TIMEOUT, parseInt, Num(30))
    /\ built.maxRetries = NumberPrecedence(options.maxRetries, env.KACHY_MAX_RETRIES,
                                           parseInt, Num(3))
    /\ built.retryDelay = NumberPrecedence(options.retryDelay, env.KACHY_RETRY_DELAY,
                                           parseFloat, Num(1))
    /\ built.poolSize = NumberPrecedence(options.poolSize, env.KACHY_POOL_SIZE, parseInt,
                                         Num(10))

(***************************************************************************)
(* C11 as stated: constructing a configuration with an empty or absent     *)
(* access key throws the missing-credential error and gives no             *)
(* configuration; with any other key it gives a configuration.  fromEnv    *)
(* throws the same error when KACHY_ACCESS_KEY is unset or empty, and      *)
(* otherwise gives a configuration whose access key is that variable.      *)
(***************************************************************************)
Thrown(made, message) == made = [kind |-> "error", message |-> message]

ConfigurationFor(made, accessKey) ==
  made.kind = "config" /\ made.accessKey = accessKey

MissingKeyFails(constructorMessage, fromEnvMessage) ==
  /\ given.how = "constructor" =>
       IF given.accessKey \in {"", Undefined}
         THEN Thrown(built, constructorMessage)
         ELSE ConfigurationFor(built, given.accessKey)
  /\ given.how = "fromEnv" =>
       IF ~env.KACHY_ACCESS_KEY.set \/ env.KACHY_ACCESS_KEY.s = ""
         THEN Thrown(built, fromEnvMessage)
         ELSE ConfigurationFor(built, env.KACHY_ACCESS_KEY.s)

HandleTracksInit ==
  /\ (globalClient.kind = "client") <=> latest.live
  /\ latest.live => globalClient = latest.client

ModuleFunctions ==
  {"getClient", "pipeline", "set", "get", "deleteKey", "exists", "expire", "ttl", "valkey"}

ClientOperation(fn) ==
  CASE fn = "deleteKey" -> "delete"
    [] fn = "valkey" -> "redis"
    [] OTHER -> fn

\* The step is a call of a module-level function.
ModuleCalled == moduleCall'.seq # moduleCall.seq

ThrewNotInitialized ==
  /\ moduleCall'.status = "threw"
  /\ moduleCall'.message = NotInitialized
  /\ call' = call
  /\ globalClient' = globalClient

DelegatedToLatest ==
  /\ moduleCall'.status = "returned"
  /\ moduleCall'.client = latest.client
  /\ globalClient' = globalClient
  /\ IF moduleCall'.fn \in {"getClient", "pipeline"}
       THEN call' = call
       ELSE /\ call'.pc = "awaiting"
            /\ call'.op = ClientOperation(moduleCall'.fn)
            /\ Len(call'.sent) = 1
            /\ call'.sent[1].baseURL = latest.client.config.baseUrl
            /\ call'.sent[1].headers.Authorization
                 = "Bearer " \o latest.client.config.accessKey

ClosedQuietly ==
  /\ moduleCall'.status = "returned"
  /\ globalClient' = Null
  /\ call' = call
  /\ ~latest.live => globalClient' = globalClient

C12_ModuleHandle ==
  [][/\ HandleTracksInit
     /\ HandleTracksInit'
     /\ ModuleCalled /\ moduleCall'.fn \in ModuleFunctions =>
          IF latest.live THEN DelegatedToLatest ELSE ThrewNotInitialized
     /\ ModuleCalled /\ moduleCall'.fn = "close" => ClosedQuietly]_vars

\* A convenience operation is in flight on the client of an init() with
\* the second key and a base URL option.
C12_Witness ==
  /\ latest.live
  /\ moduleCall.fn \in {"set", "get", "deleteKey", "exists", "expire", "ttl", "valkey"}
  /\ moduleCall.status = "returned"
  /\ call.pc = "awaiting"
  /\ globalClient.config.accessKey = "key-2"
  /\ globalClient.config.baseUrl = "https://custom.example"

(***************************************************************************)
(* C13: a second execute() called on the Pipeline while a first one is     *)
(* suspended at its await is not held back and does not get a queue of its *)
(* own: it starts replaying the same queue from its head, so the command   *)
(* at the head, which the first execute() has already sent, is sent        *)
(* again.  (C13_Witness is the interleaving in which, besides, one of the  *)
(* two calls returns fewer results than commands were queued when it was   *)
(* called.)                                                                *)
(***************************************************************************)
SecondExecuteStarts(f, g) ==
  /\ f # g
  /\ Awaiting(f)
  /\ ~disturbed[f]
  /\ pc[g] = "idle"
  /\ pc'[g] # "idle"

C13_SecondExecuteResends ==
  [][\A f, g \in Flows :
       SecondExecuteStarts(f, g) =>
         /\ commands # <<>>
         /\ sent[f][1] = ReplayRequest(commands[1])
         /\ pc'[g] = "awaiting"
         /\ sent'[g] = <<ReplayRequest(commands[1])>>
         /\ snapshot'[g] = commands
         /\ commands' = commands]_vars

\* Two execute() calls on a queue of two different commands, with no
\* mutator and no clear() in between, have both ended: three requests were
\* sent for the two commands, and one call returned a single result.
C13_Witness ==
  \E f, g \in Flows :
    /\ f # g
    /\ pc[f] = "returned" /\ pc[g] = "returned"
    /\ ~mutated[f] /\ ~mutated[g]
    /\ lastCall.method # "clear"
    /\ commands = <<>>
    /\ snapshot[f] = snapshot[g]
    /\ Len(snapshot[g]) = 2
    /\ snapshot[g][1] # snapshot[g][2]
    /\ Len(sent[f]) + Len(sent[g]) > Len(snapshot[g])
    /\ sent[f][1] = sent[g][1]
    /\ Len(results[g]) < Len(snapshot[g])

(***************************************************************************)
(* C14: when an execute() that no clear() and no other execute() has       *)
(* interfered with comes to its end, every command in the queue, those     *)
(* appended by mutators while it was suspended included, has been sent by  *)
(* it in queue order, the appended ones after the commands that were       *)
(* there when it was called, and it returns one entry per command: the     *)
(* clearing of the queue that ends it discards no command that was not     *)
(* sent.                                                                   *)
(***************************************************************************)
EndsUndisturbed(f) ==
  /\ Awaiting(f)
  /\ pc'[f] = "returned"
  /\ ~disturbed[f]

C14_AppendedCommandsReplayed ==
  [][\A f \in Flows :
       EndsUndisturbed(f) =>
         /\ commands = pending
         /\ SubSeq(commands, 1, Len(snapshot[f])) = snapshot[f]
         /\ Len(sent[f]) = Len(commands)
         /\ \A i \in 1..Len(commands) : sent[f][i] = ReplayRequest(commands[i])
         /\ Len(results'[f]) = Len(commands)
         /\ \A i \in 1..Len(commands) : results'[f][i] = OutcomeEntry(outcomes'[f][i])
         /\ commands' = <<>>]_vars

\* An execute() called on one command has returned two entries: a mutator
\* appended a command while it was suspended.
C14_Witness ==
  \E f \in Flows :
    /\ pc[f] = "returned"
    /\ mutated[f]
    /\ ~disturbed[f]
    /\ Len(snapshot[f]) = 1
    /\ Len(results[f]) = 2
    /\ Len(sent[f]) = 2

====
